---- MODULE Spec2Model ----
(***************************************************************************)
(* Model of fastmot/videoio.py: class VideoIO.                             *)
(*                                                                         *)
(* Two threads share a bounded deque (frame_queue), an Event (exit_event)  *)
(* and one Condition (cond): the consumer thread, which constructs the     *)
(* object and calls start_capture / read / write / stop_capture / release, *)
(* and cap_thread, which runs _capture_frames.                             *)
(*                                                                         *)
(* A frame is the record [id, resized]: id is the position of the frame in *)
(* the source stream (1, 2, ...), resized tells whether cv2.resize was     *)
(* applied to it.  The source yields srcLen frames and then fails.         *)
(***************************************************************************)
EXTENDS Integers, Sequences, FiniteSets, TLC

\* ---------------------------------------------------------------- bounds
MaxBuf == 2
MaxFrames == 3
MaxHalts == 2
MaxWrites == 1
MaxReads == MaxFrames + 1
MaxFps == 3

\* ------------------------------------------------------- program constants
DefaultFrameRate == 30
DefaultProcFps == 30

VARIABLES
    is_live,        \* self.is_live
    buffer_size,    \* self.buffer_size
    srcLen,         \* number of frames the source yields before read fails
    has_output,     \* output_uri is not None
    do_resize,      \* self.do_resize
    frame_rate,     \* self.frame_rate
    proc_fps,       \* self.proc_fps
    source_fps,     \* self.source.get(cv2.CAP_PROP_FPS)
    cap_fps,        \* self.cap_fps, 0 while unset
    writer_fps,     \* output_fps handed to cv2.VideoWriter, as <<num, den>>
    dt,             \* value of the last evaluation of the cap_dt property
    frame_queue,    \* self.frame_queue, a deque(maxlen=buffer_size)
    exit_event,     \* self.exit_event.is_set()
    lock,           \* owner of the lock of self.cond
    waiters,        \* threads blocked in self.cond.wait(), not yet notified
    srcOpen,        \* self.source.isOpened()
    srcPos,         \* frames the source has delivered since it was opened
    writerOpen,     \* self.writer exists and is not released
    sink,           \* frames forwarded to self.writer
    cap_pc,         \* position of cap_thread in _capture_frames
    ret,            \* local of _capture_frames
    frame,          \* local of _capture_frames
    con_pc,         \* position of the consumer thread
    in_release,     \* the running stop_capture was called by release
    outcome,        \* how the consumer's last call ended
    captured,       \* history: frames successfully read from the source
    returned,       \* history: values returned by read, in call order
    halts,          \* history: completed stop_capture / release calls
    evicted,        \* history: frames pushed out of the deque by an append
    failSnap,       \* history: frame_queue when the capture task saw ret false
    failAt,         \* history: Len(returned) at that moment, -1 before
    cleared,        \* history: frame_queue.clear() ran after the failure
    stop_called,    \* history: stop_capture was entered (directly or by release)
    late_appends    \* history: appends of the capture task made with exit_event set

config == <<is_live, buffer_size, srcLen, has_output, do_resize, frame_rate,
           proc_fps, source_fps>>
pacing == <<cap_fps, writer_fps, dt>>
shared == <<frame_queue, exit_event, lock, waiters>>
devices == <<srcOpen, srcPos, writerOpen, sink>>
capvars == <<cap_pc, ret, frame>>
convars == <<con_pc, in_release, outcome>>
history == <<captured, returned, halts, evicted, failSnap, failAt, cleared,
             stop_called, late_appends>>
vars == <<config, pacing, shared, devices, capvars, convars, history>>

\* ------------------------------------------------------------ data values
Frame(i) == [id |-> i, resized |-> FALSE]
None == [id |-> 0, resized |-> FALSE]
NoFrame == None

\* cv2.resize(frame, self.size)
Resize(f) == [f EXCEPT !.resized = TRUE]

\* a bounded buffer that rejects the incoming frame when it is full
DropNewest(q, f, maxlen) == IF Len(q) = maxlen THEN q ELSE Append(q, f)

\* a deque built without maxlen
UnboundedAppend(q, f, maxlen) == Append(q, f)

\* deque.append on a deque built with maxlen: a full deque discards its head
DequeAppend(q, f, maxlen) ==
    IF Len(q) = maxlen THEN Append(Tail(q), f) ELSE Append(q, f)

\* what such an append discards
DequeDiscard(q, maxlen) ==
    IF Len(q) = maxlen THEN <<Head(q)>> ELSE <<>>

\* a notify that wakes nobody
NotifyNone(ws) == {ws}

\* cond.notify(): wakes one waiter if there is one; the possible wait sets left
NotifyOne(ws) ==
    IF ws = {} THEN {{}} ELSE {ws \ {t} : t \in ws}

\* self.source.read(): <<ret, frame, new position>>
SourceRead(open, pos, len) ==
    IF open /\ pos < len THEN <<TRUE, Frame(pos + 1), pos + 1>>
    ELSE <<FALSE, NoFrame, pos>>

\* a read that waits for a frame even after shutdown
ReadWaitsForFrame(q, ev) == Len(q) = 0

\* loop condition of read's wait
ReadMustWait(q, ev) == Len(q) = 0 /\ ~ev

\* the capture task appends without ever waiting
NeverWait(live, q, size, ev) == FALSE

\* the wait loop without its is_live guard
WaitWhenFull(live, q, size, ev) == Len(q) = size /\ ~ev

\* loop condition of _capture_frames' wait, with its is_live guard
CaptureMustWait(live, q, size, ev) == ~live /\ Len(q) = size /\ ~ev

\* cap_thread.is_alive()
IsAlive(pc) == pc \notin {"unstarted", "done"}

\* a stop that signals and returns without waiting for the thread
JoinImmediately(pc) == TRUE

\* cap_thread.join() returns (or raises) only when the thread is not running
Joined(pc) == pc \in {"unstarted", "done"}

\* a join that also refuses a thread that has already finished
JoinRaisesUnlessAlive(pc) == pc \in {"unstarted", "done"}

\* cap_thread.join() on a thread that was never started raises RuntimeError
JoinRaises(pc) == pc = "unstarted"

\* frame_queue.pop() in place of popleft()
PopRight(q) == <<q[Len(q)], SubSeq(q, 1, Len(q) - 1)>>

\* frame_queue.popleft(): <<the frame removed, the deque left>>
PopLeft(q) == <<Head(q), Tail(q)>>

\* the tail of read: resize the frame when do_resize is set
Out(f) == IF do_resize THEN Resize(f) ELSE f

\* a write that forwards nothing
SinkDrop(s, f, open) == s

\* self.writer.write(frame): a released writer ignores the frame
SinkWrite(s, f, open) == IF open THEN Append(s, f) ELSE s

\* rationals as <<numerator, denominator>>; NoRate stands for "not computed"
NoRate == <<0, 0>>
Rat(n) == <<n, 1>>

\* 1 / r
Recip(r) == <<r[2], r[1]>>

\* the builtin min of two numbers
Min2(a, b) == IF b < a THEN b ELSE a

\* a capture interval that ignores the processing rate
CapDtUncapped(cap, proc, live) == Recip(Rat(cap))

\* the cap_dt property
CapDt(cap, proc, live) ==
    IF live THEN Recip(Rat(Min2(cap, proc))) ELSE Recip(Rat(cap))

\* self.cap_fps after the fallback to the configured frame rate
CapFps(reported, rate) == IF reported = 0 THEN rate ELSE reported

\* exceptions a call can end with
ErrFirstRead == "RuntimeError: Unable to read video stream"
ErrRestart == "RuntimeError: threads can only be started once"
ErrJoin == "RuntimeError: cannot join thread before it is started"
ErrNoWriter == "AssertionError"

\* ------------------------------------------------------------------ Init
Init ==
    /\ is_live \in BOOLEAN
    /\ buffer_size \in 1..MaxBuf
    /\ srcLen \in 0..MaxFrames
    /\ has_output \in BOOLEAN
    /\ do_resize \in BOOLEAN
    /\ frame_rate = DefaultFrameRate
    /\ proc_fps = DefaultProcFps
    /\ source_fps = 0
    /\ cap_fps = 0
    /\ writer_fps = NoRate
    /\ dt = NoRate
    /\ frame_queue = <<>>
    /\ exit_event = FALSE
    /\ lock = "free"
    /\ waiters = {}
    /\ srcOpen = TRUE
    /\ srcPos = 0
    /\ writerOpen = FALSE
    /\ sink = <<>>
    /\ cap_pc = "unstarted"
    /\ ret = FALSE
    /\ frame = NoFrame
    /\ con_pc = "new"
    /\ in_release = FALSE
    /\ outcome = "none"
    /\ captured = <<>>
    /\ returned = <<>>
    /\ halts = <<>>
    /\ evicted = <<>>
    /\ failSnap = <<>>
    /\ failAt = -1
    /\ cleared = FALSE
    /\ stop_called = FALSE
    /\ late_appends = 0

\* ------------------------------------------------- VideoIO.__init__
\* a constructor that does not test ret and buffers whatever the read gave
ConstructUnchecked ==
    /\ con_pc = "new"
    /\ LET r == SourceRead(srcOpen, srcPos, srcLen) IN
         /\ frame_queue' = DequeAppend(frame_queue, r[2], buffer_size)
         /\ evicted' = evicted \o DequeDiscard(frame_queue, buffer_size)
         /\ srcPos' = r[3]
         /\ captured' = IF r[1] THEN Append(captured, r[2]) ELSE captured
         /\ writerOpen' = has_output
         /\ cap_fps' = CapFps(source_fps, frame_rate)
         /\ writer_fps' = IF has_output
                          THEN Recip(CapDt(CapFps(source_fps, frame_rate),
                                           proc_fps, is_live))
                          ELSE NoRate
         /\ con_pc' = "idle"
         /\ outcome' = "ok"
    /\ UNCHANGED <<config, dt, exit_event, lock, waiters, srcOpen, sink, capvars,
                   in_release, returned, halts, failSnap, failAt, cleared,
                   stop_called, late_appends>>

Construct ==
    /\ con_pc = "new"
    /\ LET r == SourceRead(srcOpen, srcPos, srcLen) IN
       IF ~r[1]
       THEN /\ con_pc' = "failed"
            /\ outcome' = ErrFirstRead
            /\ UNCHANGED <<frame_queue, srcPos, writerOpen, captured, evicted,
                           cap_fps, writer_fps>>
       ELSE /\ frame_queue' = DequeAppend(frame_queue, r[2], buffer_size)
            /\ evicted' = evicted \o DequeDiscard(frame_queue, buffer_size)
            /\ srcPos' = r[3]
            /\ captured' = Append(captured, r[2])
            /\ writerOpen' = has_output
            /\ cap_fps' = CapFps(source_fps, frame_rate)
            /\ writer_fps' = IF has_output
                             THEN Recip(CapDt(CapFps(source_fps, frame_rate),
                                              proc_fps, is_live))
                             ELSE NoRate
            /\ con_pc' = "idle"
            /\ outcome' = "ok"
    /\ UNCHANGED <<config, dt, exit_event, lock, waiters, srcOpen, sink, capvars,
                   in_release, returned, halts, failSnap, failAt, cleared,
                   stop_called, late_appends>>

\* ------------------------------------------------- VideoIO.cap_dt
cap_dt ==
    /\ con_pc = "idle"
    /\ dt' = CapDt(cap_fps, proc_fps, is_live)
    /\ UNCHANGED <<config, cap_fps, writer_fps, shared, devices, capvars,
                   convars, history>>

\* ------------------------------------------------- VideoIO.start_capture
\* a start that clears the event so that capture could run again
start_capture_clears ==
    /\ con_pc = "idle"
    /\ srcOpen' = TRUE
    /\ srcPos' = IF srcOpen THEN srcPos ELSE 0
    /\ exit_event' = FALSE
    /\ IF IsAlive(cap_pc)
       THEN /\ outcome' = "ok"
            /\ UNCHANGED cap_pc
       ELSE IF cap_pc = "unstarted"
            THEN /\ cap_pc' = "top"
                 /\ outcome' = "ok"
            ELSE /\ outcome' = ErrRestart
                 /\ UNCHANGED cap_pc
    /\ UNCHANGED <<config, pacing, frame_queue, lock, waiters, writerOpen,
                   sink, ret, frame, con_pc, in_release, history>>

start_capture ==
    /\ con_pc = "idle"
    /\ srcOpen' = TRUE
    /\ srcPos' = IF srcOpen THEN srcPos ELSE 0
    /\ IF IsAlive(cap_pc)
       THEN /\ outcome' = "ok"
            /\ UNCHANGED cap_pc
       ELSE IF cap_pc = "unstarted"
            THEN /\ cap_pc' = "top"
                 /\ outcome' = "ok"
            ELSE /\ outcome' = ErrRestart
                 /\ UNCHANGED cap_pc
    /\ UNCHANGED <<config, pacing, shared, writerOpen, sink, ret, frame, con_pc,
                   in_release, history>>

\* ------------------------------------------------- VideoIO.read
read_call ==
    /\ con_pc = "idle"
    /\ Len(returned) < MaxReads
    /\ con_pc' = "r_acquire"
    /\ UNCHANGED <<config, pacing, shared, devices, capvars, in_release, outcome,
                   history>>

\* with self.cond: (entry)
read_acquire ==
    /\ con_pc = "r_acquire"
    /\ lock = "free"
    /\ lock' = "consumer"
    /\ con_pc' = "r_locked"
    /\ UNCHANGED <<config, pacing, frame_queue, exit_event, waiters, devices, capvars,
                   in_release, outcome, history>>

\* the body of the with block, up to the wait or the return
read_locked ==
    /\ con_pc = "r_locked"
    /\ lock = "consumer"
    /\ lock' = "free"
    /\ IF ReadMustWait(frame_queue, exit_event)
       THEN /\ waiters' = waiters \cup {"consumer"}
            /\ con_pc' = "r_wait"
            /\ UNCHANGED <<frame_queue, outcome, returned>>
       ELSE IF Len(frame_queue) = 0 /\ exit_event
            THEN /\ returned' = Append(returned, None)
                 /\ con_pc' = "idle"
                 /\ outcome' = "ok"
                 /\ UNCHANGED <<frame_queue, waiters>>
            ELSE /\ frame_queue' = PopLeft(frame_queue)[2]
                 /\ waiters' \in NotifyOne(waiters)
                 /\ returned' = Append(returned, Out(PopLeft(frame_queue)[1]))
                 /\ con_pc' = "idle"
                 /\ outcome' = "ok"
    /\ UNCHANGED <<config, pacing, exit_event, devices, capvars, in_release,
                   captured, halts, evicted, failSnap, failAt, cleared,
                   stop_called, late_appends>>

\* self.cond.wait() returning: notified, then the lock is taken again
read_wake ==
    /\ con_pc = "r_wait"
    /\ "consumer" \notin waiters
    /\ lock = "free"
    /\ lock' = "consumer"
    /\ con_pc' = "r_locked"
    /\ UNCHANGED <<config, pacing, frame_queue, exit_event, waiters, devices, capvars,
                   in_release, outcome, history>>

\* ------------------------------------------------- VideoIO.write
WriteFrames == {Frame(1), Resize(Frame(1))}

write(f) ==
    /\ con_pc = "idle"
    /\ Len(sink) < MaxWrites
    /\ IF ~has_output
       THEN /\ outcome' = ErrNoWriter
            /\ UNCHANGED sink
       ELSE /\ sink' = SinkWrite(sink, f, writerOpen)
            /\ outcome' = "ok"
    /\ UNCHANGED <<config, pacing, shared, srcOpen, srcPos, writerOpen, capvars,
                   con_pc, in_release, history>>

\* ------------------------------------------------- VideoIO.stop_capture
stop_capture ==
    /\ con_pc = "idle"
    /\ Len(halts) < MaxHalts
    /\ con_pc' = "s_acquire"
    /\ in_release' = FALSE
    /\ stop_called' = TRUE
    /\ UNCHANGED <<config, pacing, shared, devices, capvars, outcome, captured,
                   returned, halts, evicted, failSnap, failAt, cleared,
                   late_appends>>

\* with self.cond: (entry)
stop_acquire ==
    /\ con_pc = "s_acquire"
    /\ lock = "free"
    /\ lock' = "consumer"
    /\ con_pc' = "s_locked"
    /\ UNCHANGED <<config, pacing, frame_queue, exit_event, waiters, devices, capvars,
                   in_release, outcome, history>>

\* self.exit_event.set(); self.cond.notify(); and the end of the with block
stop_signal ==
    /\ con_pc = "s_locked"
    /\ lock = "consumer"
    /\ exit_event' = TRUE
    /\ waiters' \in NotifyOne(waiters)
    /\ lock' = "free"
    /\ con_pc' = "s_clear"
    /\ UNCHANGED <<config, pacing, frame_queue, devices, capvars, in_release, outcome,
                   history>>

\* self.frame_queue.clear()
stop_clear ==
    /\ con_pc = "s_clear"
    /\ frame_queue' = <<>>
    /\ cleared' = (cleared \/ failAt >= 0)
    /\ con_pc' = "s_join"
    /\ UNCHANGED <<config, pacing, exit_event, lock, waiters, devices, capvars,
                   in_release, outcome, captured, returned, halts, evicted,
                   failSnap, failAt, stop_called, late_appends>>

\* self.cap_thread.join(), and for release the two releases that follow it
stop_join ==
    /\ con_pc = "s_join"
    /\ Joined(cap_pc)
    /\ con_pc' = "idle"
    /\ in_release' = FALSE
    /\ IF JoinRaises(cap_pc)
       THEN /\ outcome' = ErrJoin
            /\ UNCHANGED <<srcOpen, writerOpen, halts>>
       ELSE /\ outcome' = "ok"
            /\ halts' = Append(halts, IF in_release THEN "release" ELSE "stop")
            /\ srcOpen' = (srcOpen /\ ~in_release)
            /\ writerOpen' = (writerOpen /\ ~in_release)
    /\ UNCHANGED <<config, pacing, shared, srcPos, sink, capvars, captured, returned,
                   evicted, failSnap, failAt, cleared, stop_called, late_appends>>

\* ------------------------------------------------- VideoIO.release
release ==
    /\ con_pc = "idle"
    /\ Len(halts) < MaxHalts
    /\ con_pc' = "s_acquire"
    /\ in_release' = TRUE
    /\ stop_called' = TRUE
    /\ UNCHANGED <<config, pacing, shared, devices, capvars, outcome, captured,
                   returned, halts, evicted, failSnap, failAt, cleared,
                   late_appends>>

\* ------------------------------------------------- VideoIO._capture_frames
\* while True: a loop that never tests the event
capture_top_unconditional ==
    /\ cap_pc = "top"
    /\ cap_pc' = "src_read"
    /\ UNCHANGED <<config, pacing, shared, devices, ret, frame, convars,
                   history>>

\* while not self.exit_event.is_set():
capture_top ==
    /\ cap_pc = "top"
    /\ cap_pc' = IF exit_event THEN "done" ELSE "src_read"
    /\ UNCHANGED <<config, pacing, shared, devices, ret, frame, convars, history>>

\* ret, frame = self.source.read()
capture_source_read ==
    /\ cap_pc = "src_read"
    /\ LET r == SourceRead(srcOpen, srcPos, srcLen) IN
         /\ ret' = r[1]
         /\ frame' = r[2]
         /\ srcPos' = r[3]
         /\ captured' = IF r[1] THEN Append(captured, r[2]) ELSE captured
    /\ cap_pc' = "acquire"
    /\ UNCHANGED <<config, pacing, shared, srcOpen, writerOpen, sink, convars,
                   returned, halts, evicted, failSnap, failAt, cleared,
                   stop_called, late_appends>>

\* with self.cond: (entry)
capture_acquire ==
    /\ cap_pc = "acquire"
    /\ lock = "free"
    /\ lock' = "capture"
    /\ cap_pc' = "locked"
    /\ UNCHANGED <<config, pacing, frame_queue, exit_event, waiters, devices, ret,
                   frame, convars, history>>

\* if not ret: ... break; otherwise the test of the wait loop
capture_locked ==
    /\ cap_pc = "locked"
    /\ lock = "capture"
    /\ IF ~ret
       THEN /\ exit_event' = TRUE
            /\ waiters' \in NotifyOne(waiters)
            /\ lock' = "free"
            /\ cap_pc' = "done"
            /\ failSnap' = IF failAt < 0 THEN frame_queue ELSE failSnap
            /\ failAt' = IF failAt < 0 THEN Len(returned) ELSE failAt
       ELSE IF CaptureMustWait(is_live, frame_queue, buffer_size, exit_event)
            THEN /\ waiters' = waiters \cup {"capture"}
                 /\ lock' = "free"
                 /\ cap_pc' = "wait"
                 /\ UNCHANGED <<exit_event, failSnap, failAt>>
            ELSE /\ cap_pc' = "append"
                 /\ UNCHANGED <<exit_event, waiters, lock, failSnap, failAt>>
    /\ UNCHANGED <<config, pacing, frame_queue, devices, ret, frame, convars,
                   captured, returned, halts, evicted, cleared, stop_called, late_appends>>

\* self.cond.wait() returning: notified, then the lock is taken again
capture_wake ==
    /\ cap_pc = "wait"
    /\ "capture" \notin waiters
    /\ lock = "free"
    /\ lock' = "capture"
    /\ cap_pc' = "locked"
    /\ UNCHANGED <<config, pacing, frame_queue, exit_event, waiters, devices, ret,
                   frame, convars, history>>

\* self.frame_queue.append(frame); self.cond.notify(); end of the with block
capture_append ==
    /\ cap_pc = "append"
    /\ lock = "capture"
    /\ frame_queue' = DequeAppend(frame_queue, frame, buffer_size)
    /\ evicted' = evicted \o DequeDiscard(frame_queue, buffer_size)
    /\ late_appends' = IF exit_event THEN late_appends + 1 ELSE late_appends
    /\ waiters' \in NotifyOne(waiters)
    /\ lock' = "free"
    /\ cap_pc' = "top"
    /\ UNCHANGED <<config, pacing, exit_event, devices, ret, frame, convars,
                   captured, returned, halts, failSnap, failAt, cleared,
                   stop_called>>

\* ------------------------------------------------------------ behaviours
ConsumerStep ==
    \/ read_acquire \/ read_locked \/ read_wake
    \/ stop_acquire \/ stop_signal \/ stop_clear \/ stop_join

CaptureStep ==
    \/ capture_top \/ capture_source_read \/ capture_acquire
    \/ capture_locked \/ capture_wake \/ capture_append

Next ==
    \/ Construct
    \/ start_capture
    \/ read_call
    \/ \E f \in WriteFrames : write(f)
    \/ stop_capture
    \/ release
    \/ ConsumerStep
    \/ CaptureStep

Spec == Init /\ [][Next]_vars

\* every started step of either thread is eventually taken; calls are not forced
FairSpec == Spec /\ WF_vars(ConsumerStep) /\ WF_vars(CaptureStep)

\* the constructor and the cap_dt property over a range of frame rates
PacingInit ==
    /\ is_live \in BOOLEAN
    /\ buffer_size = 1
    /\ srcLen \in 0..1
    /\ has_output \in BOOLEAN
    /\ do_resize = FALSE
    /\ frame_rate \in 1..MaxFps
    /\ proc_fps \in 1..MaxFps
    /\ source_fps \in 0..MaxFps
    /\ cap_fps = 0
    /\ writer_fps = NoRate
    /\ dt = NoRate
    /\ frame_queue = <<>>
    /\ exit_event = FALSE
    /\ lock = "free"
    /\ waiters = {}
    /\ srcOpen = TRUE
    /\ srcPos = 0
    /\ writerOpen = FALSE
    /\ sink = <<>>
    /\ cap_pc = "unstarted"
    /\ ret = FALSE
    /\ frame = NoFrame
    /\ con_pc = "new"
    /\ in_release = FALSE
    /\ outcome = "none"
    /\ captured = <<>>
    /\ returned = <<>>
    /\ halts = <<>>
    /\ evicted = <<>>
    /\ failSnap = <<>>
    /\ failAt = -1
    /\ cleared = FALSE
    /\ stop_called = FALSE
    /\ late_appends = 0

PacingNext == Construct \/ cap_dt

PacingSpec == PacingInit /\ [][PacingNext]_vars

TypeOK ==
    /\ Len(frame_queue) <= MaxBuf
    /\ lock \in {"free", "consumer", "capture"}
    /\ waiters \subseteq {"consumer", "capture"}

\* ------------------------------------------------------------ properties
RECURSIVE IsSubseq(_, _)
\* s can be obtained from t by deleting elements
IsSubseq(s, t) ==
    IF s = <<>> THEN TRUE
    ELSE IF t = <<>> THEN FALSE
    ELSE IF Head(s) = Head(t) THEN IsSubseq(Tail(s), Tail(t))
    ELSE IsSubseq(s, Tail(t))

IsFrame(f) == f.id # 0
Ids(s) == [i \in 1..Len(s) |-> s[i].id]
\* the frames read has returned, without the None results
ReturnedFrames == SelectSeq(returned, IsFrame)
NoDuplicates(s) == \A i, j \in 1..Len(s) : i # j => s[i] # s[j]

\* C1: in every reachable state frame_queue holds at most buffer_size frames,
\* for live and non-live sources, whatever the interleaving of the priming
\* append, the capture task's appends, read and stop_capture.
C1_QueueBounded == Len(frame_queue) <= buffer_size

\* a live capture has appended to a full queue, which is still full
C1_Witness ==
    /\ is_live
    /\ evicted # <<>>
    /\ Len(frame_queue) = buffer_size
    /\ stop_called

\* C2: the frames returned by successive reads are a subsequence of the frames
\* successfully read from the source (the primed frame first), in capture
\* order, and no frame is returned twice.
C2_ReadOrder ==
    /\ IsSubseq(Ids(ReturnedFrames), Ids(captured))
    /\ NoDuplicates(Ids(ReturnedFrames))

\* reads have skipped a frame that a live capture pushed out of the queue
C2_Witness ==
    /\ Ids(ReturnedFrames) = <<1, 3>>
    /\ Ids(captured) = <<1, 2, 3>>

InRead == con_pc \in {"r_acquire", "r_locked", "r_wait"}
InStop == con_pc \in {"s_acquire", "s_locked", "s_clear", "s_join"}
Started == cap_pc # "unstarted"

C3_Delivered ==
    (~is_live /\ ~stop_called) =>
        \A i \in 1..Len(returned) :
            returned[i] = IF i <= srcLen THEN Out(Frame(i)) ELSE None

C3_ReadsReturn ==
    (~is_live /\ ~stop_called /\ Started /\ InRead) ~> (con_pc = "idle")

\* C3: for a non-live source of N frames, with stop_capture never called, the
\* first N reads return the N frames in source order, every later read returns
\* None, and once the capture task is started every read returns.
C3_FiniteSourceDrained == []C3_Delivered /\ C3_ReadsReturn

\* all frames of the longest source came through a one-slot buffer, then None
C3_Witness ==
    /\ ~is_live
    /\ ~stop_called
    /\ buffer_size = 1
    /\ srcLen = MaxFrames
    /\ Len(returned) = srcLen + 1
    /\ returned[srcLen] = Out(Frame(srcLen))
    /\ returned[srcLen + 1] = None

\* C4: for a non-live source no append of the capture task pushes a buffered
\* frame out of frame_queue, stop_capture during a full-buffer wait included.
C4_NoEvictionNonLive == ~is_live => evicted = <<>>

C5_NoFullWait == is_live => (cap_pc # "wait" /\ "capture" \notin waiters)

C5_IterationCompletes ==
    (is_live /\ cap_pc = "acquire" /\ ret) ~> (cap_pc = "top")

\* C5: for a live source the capture task never waits on the condition, and
\* every successful source read is followed by the append and the return to
\* the loop top, whether or not the consumer reads.
C5_LiveNeverBlocks == []C5_NoFullWait /\ C5_IterationCompletes

\* a live capture back at the loop top after appending to a full queue, with
\* no read ever called
C5_Witness ==
    /\ is_live
    /\ returned = <<>>
    /\ con_pc = "idle"
    /\ ~stop_called
    /\ evicted # <<>>
    /\ cap_pc = "top"
    /\ Len(captured) = MaxFrames

C6_Terminal ==
    failAt >= 0 => (exit_event /\ cap_pc = "done" /\ "consumer" \notin waiters)

C6_Drain ==
    (failAt >= 0 /\ ~cleared) =>
        LET post == SubSeq(returned, failAt + 1, Len(returned))
            n == Len(failSnap)
            k == IF Len(post) < n THEN Len(post) ELSE n
        IN /\ \A i \in 1..Len(post) :
                post[i] = IF i <= n THEN Out(failSnap[i]) ELSE None
           /\ frame_queue = SubSeq(failSnap, k + 1, n)

C6_BlockedReadReturns == (failAt >= 0 /\ InRead) ~> (con_pc = "idle")

\* C6: a failed source read in the capture task sets exit_event, leaves no
\* reader waiting and ends the task; the reads that follow return the frames
\* buffered at that moment, in order, then None; a read in progress returns.
C6_FailureIsEndOfStream ==
    /\ []C6_Terminal
    /\ []C6_Drain
    /\ C6_BlockedReadReturns

\* after the failure the reads drained two buffered frames and then got None
C6_Witness ==
    /\ failAt >= 0
    /\ ~stop_called
    /\ Len(failSnap) = 2
    /\ Len(returned) = failAt + 3
    /\ returned[Len(returned)] = None

\* C7: once a stop_capture has returned, exit_event is set and frame_queue is
\* empty, so that a later read can only return None.
C7_StoppedIsEmpty == halts # <<>> => (exit_event /\ frame_queue = <<>>)

\* C8: with the capture task started, fair scheduling and source reads that
\* return, every stop_capture returns, and the capture task has exited by then.
C8_StopReturns ==
    (InStop /\ Started) ~> (con_pc = "idle" /\ cap_pc = "done")

\* stop_capture has woken a capture task that waited on a full buffer and is
\* now joining it
C8_Witness ==
    /\ con_pc = "s_join"
    /\ ~is_live
    /\ cap_pc = "wait"
    /\ "capture" \notin waiters

C9_ReturnsAfterExit ==
    [][(con_pc = "s_join" /\ con_pc' = "idle" /\ outcome' = "ok")
          => cap_pc = "done"]_vars

C9_QuietAfterReturn ==
    [][halts # <<>> => /\ cap_pc' = "done"
                       /\ captured' = captured
                       /\ Len(frame_queue') <= Len(frame_queue)]_vars

C9_BlockedDuringSourceRead ==
    [][(con_pc = "s_join" /\ cap_pc = "src_read") => con_pc' = "s_join"]_vars

\* C9: stop_capture returns only when the capture task has exited; after the
\* return there is no source read and no append; while the capture task is in
\* a source read the join does not return.
C9_TrueJoin ==
    /\ C9_ReturnsAfterExit
    /\ C9_QuietAfterReturn
    /\ C9_BlockedDuringSourceRead

\* stop_capture has returned after a capture task that was still running
\* during the call: its last frame arrived after the clear
C9_Witness ==
    /\ halts = <<"stop">>
    /\ con_pc = "idle"
    /\ cap_pc = "done"
    /\ frame_queue # <<>>

C10_NoError ==
    [][(con_pc = "s_join" /\ con_pc' = "idle" /\ Started)
          => /\ outcome' = "ok"
             /\ halts' = Append(halts, IF in_release THEN "release" ELSE "stop")
             /\ in_release => (~srcOpen' /\ ~writerOpen')]_vars

C10_RepeatCompletes == (InStop /\ Started /\ halts # <<>>) ~> (con_pc = "idle")

\* C10: after start_capture every stop_capture and release call, repeated
\* ones included, returns without an error.
C10_StopReleaseIdempotent == C10_NoError /\ C10_RepeatCompletes

\* a stop_capture and then a release have both returned normally
C10_Witness ==
    /\ halts = <<"stop", "release">>
    /\ con_pc = "idle"
    /\ outcome = "ok"
    /\ ~srcOpen

\* C11: release completes without error from any lifecycle state, CREATED
\* included, and leaves exit_event set, the sink closed and the source closed.
C11_ReleaseFromAnyState ==
    [][(con_pc = "s_join" /\ in_release /\ con_pc' = "idle")
          => /\ outcome' = "ok"
             /\ exit_event'
             /\ ~srcOpen'
             /\ ~writerOpen']_vars

C12_NeverRaises == outcome # ErrRestart

C12_OneTask ==
    [][cap_pc' = "top" /\ cap_pc \notin {"top", "append"}
          => cap_pc = "unstarted"]_vars

\* C12: a start_capture after an earlier start_capture returns without error,
\* whether the capture task is running or has exited, and the task is started
\* at most once.
C12_StartIdempotent == []C12_NeverRaises /\ C12_OneTask

C13_ConstructorOutcome ==
    [][con_pc = "new" =>
          IF srcLen = 0
          THEN /\ con_pc' = "failed"
               /\ outcome' = ErrFirstRead
               /\ frame_queue' = <<>>
          ELSE /\ con_pc' = "idle"
               /\ outcome' = "ok"
               /\ frame_queue' = <<Frame(1)>>
               /\ ~exit_event']_vars

C13_NoTaskYet == con_pc \in {"new", "failed"} => cap_pc = "unstarted"

C13_NoTaskAtConstruction ==
    [][con_pc = "new" => cap_pc' = "unstarted"]_vars

\* C13: a failed first read ends the constructor with RuntimeError and no
\* capture task is ever started; a successful one leaves exactly that frame
\* in frame_queue, exit_event unset and the capture task not started.
C13_Construction ==
    /\ C13_ConstructorOutcome
    /\ []C13_NoTaskYet
    /\ C13_NoTaskAtConstruction

\* the constructor has raised on a source that has no frame
C13_Witness ==
    /\ con_pc = "failed"
    /\ outcome = ErrFirstRead
    /\ srcLen = 0
    /\ frame_queue = <<>>

C14_NoSinkNoFrame == ~has_output => sink = <<>>

C14_WriteEffect ==
    [][\A f \in WriteFrames :
         write(f) =>
           /\ frame_queue' = frame_queue
           /\ exit_event' = exit_event
           /\ IF ~has_output
              THEN outcome' = ErrNoWriter /\ sink' = sink
              ELSE /\ outcome' = "ok"
                   /\ writerOpen => sink' = Append(sink, f)]_vars

C14_OnlyWriteForwards ==
    [][sink' # sink => (has_output /\ con_pc = "idle" /\ con_pc' = "idle")]_vars

\* C14: without output_uri a write ends with an error and no frame ever
\* reaches a sink; with a sink, write forwards exactly its argument and leaves
\* frame_queue and exit_event as they were.
C14_WriteContract ==
    /\ []C14_NoSinkNoFrame
    /\ C14_WriteEffect
    /\ C14_OnlyWriteForwards

\* a resized frame was written to the sink while the capture task was running
C14_Witness ==
    /\ has_output
    /\ sink = <<Resize(Frame(1))>>
    /\ outcome = "ok"
    /\ IsAlive(cap_pc)

C15_CapFps ==
    con_pc = "idle" =>
        /\ source_fps # 0 => cap_fps = source_fps
        /\ source_fps = 0 => cap_fps = frame_rate

C15_Value ==
    dt # NoRate =>
        IF is_live
        THEN \E m \in {cap_fps, proc_fps} :
                /\ m <= cap_fps
                /\ m <= proc_fps
                /\ dt[1] * m = dt[2]
                /\ dt[1] > 0
        ELSE dt[1] * cap_fps = dt[2] /\ dt[1] > 0

C15_Pure ==
    [][dt' # dt => UNCHANGED <<config, cap_fps, writer_fps, shared, devices,
                               capvars, convars, history>>]_vars

\* C15: cap_dt is 1/min(cap_fps, proc_fps) for a live source and 1/cap_fps
\* otherwise, cap_fps being the source's rate or frame_rate when the source
\* reports 0, and evaluating it changes nothing.
C15_CapDt == []C15_CapFps /\ []C15_Value /\ C15_Pure

\* a live source that reports no rate: the interval follows the slower
\* processing rate, not the configured frame rate
C15_Witness ==
    /\ is_live
    /\ source_fps = 0
    /\ cap_fps = frame_rate
    /\ proc_fps < cap_fps
    /\ dt = <<1, proc_fps>>

LiveOverflow ==
    /\ is_live
    /\ cap_pc = "append"
    /\ cap_pc' = "top"
    /\ Len(frame_queue) = buffer_size

\* C16: when a live capture task pushes a frame into a full frame_queue, the
\* incoming frame is dropped and the buffered frames stay as they were.
C16_DropNewest == [][LiveOverflow => frame_queue' = frame_queue]_vars

\* C16 as amended: the push discards the oldest buffered frame, keeps the
\* others in order and puts the incoming frame at the tail.
C16_DropOldest ==
    [][LiveOverflow =>
          /\ frame_queue' = Append(Tail(frame_queue), frame)
          /\ evicted' = Append(evicted, Head(frame_queue))]_vars

\* a live capture filled a two-slot buffer and then pushed frame 3 into it
C16_Witness ==
    /\ is_live
    /\ buffer_size = 2
    /\ Ids(frame_queue) = <<2, 3>>
    /\ Ids(evicted) = <<1>>

\* C17: once the capture task is started, every change of frame_queue or of
\* exit_event is made by a thread that holds the lock of cond.
C17_LockedAccess ==
    [][(Started /\ (frame_queue' # frame_queue \/ exit_event' # exit_event))
          => \/ cap_pc' # cap_pc /\ lock = "capture"
             \/ con_pc' # con_pc /\ lock = "consumer"]_vars

C18_NeverCleared == [][exit_event => exit_event']_vars

C18_SetOnlyBy ==
    [][(~exit_event /\ exit_event')
          => \/ con_pc = "s_locked" /\ con_pc' = "s_clear"
             \/ cap_pc = "locked" /\ ~ret /\ cap_pc' = "done"]_vars

\* C18: once exit_event is set no step clears it, and the only steps that set
\* it are stop_capture's and the capture task's after a failed source read.
C18_FlagMonotonic == C18_NeverCleared /\ C18_SetOnlyBy

\* the flag set by a failed source read is still set after a later read
\* returned None and a stop_capture returned
C18_Witness ==
    /\ exit_event
    /\ failAt >= 0
    /\ Len(returned) > failAt
    /\ returned[Len(returned)] = None
    /\ halts = <<"stop">>
    /\ con_pc = "idle"

C19_OneWaiter == Cardinality(waiters) <= 1

C19_ReaderWaitJustified ==
    "consumer" \in waiters => (frame_queue = <<>> /\ ~exit_event)

C19_CaptureWaitJustified ==
    "capture" \in waiters =>
        (~is_live /\ Len(frame_queue) = buffer_size /\ ~exit_event)

\* C19: the capture task and the consumer never wait on cond together, and
\* neither stays in the wait set once its own predicate holds (frames or
\* shutdown for read, free slot or shutdown for the capture task).
C19_NoLostWakeup ==
    /\ C19_OneWaiter
    /\ C19_ReaderWaitJustified
    /\ C19_CaptureWaitJustified

\* the consumer has been notified of a frame while the capture task, on a
\* full buffer again, is in the wait set
C19_Witness ==
    /\ con_pc = "r_wait"
    /\ "consumer" \notin waiters
    /\ waiters = {"capture"}
    /\ frame_queue # <<>>

C20_OneLateAppend == late_appends <= 1

C20_NoNewSourceRead ==
    [][(exit_event /\ cap_pc' = "src_read") => cap_pc = "src_read"]_vars

C20_ThenExit ==
    [][(exit_event /\ cap_pc = "top") => cap_pc' \in {"top", "done"}]_vars

\* C20: with exit_event set the capture task makes at most one more append,
\* begins no further loop iteration (no new source read) and leaves the loop
\* at its next test.
C20_BoundedAfterShutdown ==
    /\ []C20_OneLateAppend
    /\ C20_NoNewSourceRead
    /\ C20_ThenExit

\* the capture task appended once after stop_capture set the flag, then exited
C20_Witness ==
    /\ late_appends = 1
    /\ stop_called
    /\ failAt < 0
    /\ cap_pc = "done"

====
